---- MODULE Spec2Model ----
(***************************************************************************)
(* chittypro-crtlo: the HTTP route layer (server/routes.ts), the AI        *)
(* gateway client (server/chittygateway.ts) and the auth module            *)
(* (server/chittyAuth.ts).                                                 *)
(*                                                                         *)
(* Strings that the code inspects character by character (ChittyIDs) are   *)
(* sequences of one-character strings.  JavaScript values whose dynamic    *)
(* type matters are records [k, n, s] (kind, number, string).              *)
(***************************************************************************)
EXTENDS Integers, Sequences, FiniteSets, TLC

\* ------------------------------------------------------------------------
\* ChittyID format (chittyAuth.ts:16-21)
\* ------------------------------------------------------------------------

Upper == {"A","B","C","D","E","F","G","H","I","J","K","L","M",
          "N","O","P","Q","R","S","T","U","V","W","X","Y","Z"}

Digit == {"0","1","2","3","4","5","6","7","8","9"}

\* the character class [A-Z0-9] of CHITTYID_PATTERN
AlnumClass == Upper \cup Digit

\* the literal "CHITTY-" the pattern starts with
ChittyPrefix == <<"C","H","I","T","T","Y","-">>

\* the alternation (PEO|PLACE|PROP|EVNT|AUTH|INFO|FACT|CONTEXT|ACTOR|DOC|SERVICE)
EntityTags ==
  { <<"P","E","O">>, <<"P","L","A","C","E">>, <<"P","R","O","P">>,
    <<"E","V","N","T">>, <<"A","U","T","H">>, <<"I","N","F","O">>,
    <<"F","A","C","T">>, <<"C","O","N","T","E","X","T">>,
    <<"A","C","T","O","R">>, <<"D","O","C">>,
    <<"S","E","R","V","I","C","E">> }

\* [A-Z0-9]{8}
SequenceLen == 8

\* [A-Z0-9]{4}
ChecksumLen == 4

\* positions reached from a position of P by matching the literal lit
AfterLit(s, P, lit) ==
  { p + Len(lit) : p \in { q \in P : /\ q + Len(lit) - 1 <= Len(s)
                                     /\ SubSeq(s, q, q + Len(lit) - 1) = lit } }

\* positions reached by matching one alternative of alts
AfterAlt(s, P, alts) == UNION { AfterLit(s, P, a) : a \in alts }

\* positions reached by matching exactly n characters of class cls
AfterClass(s, P, cls, n) ==
  { p + n : p \in { q \in P : /\ q + n - 1 <= Len(s)
                              /\ \A k \in 0 .. (n - 1) : s[q + k] \in cls } }

\* the pattern without its $ anchor
PatternTestUnanchored(s) ==
  LET p1 == AfterLit(s, {1}, ChittyPrefix)
      p2 == AfterAlt(s, p1, EntityTags)
      p3 == AfterLit(s, p2, <<"-">>)
      p4 == AfterClass(s, p3, AlnumClass, SequenceLen)
      p5 == AfterLit(s, p4, <<"-">>)
      p6 == AfterClass(s, p5, AlnumClass, ChecksumLen)
  IN  p6 # {}

\* CHITTYID_PATTERN.test(s): ^ anchors the match at position 1 and $ (no m
\* flag) at the very end of the input
PatternTest(s) ==
  LET p1 == AfterLit(s, {1}, ChittyPrefix)
      p2 == AfterAlt(s, p1, EntityTags)
      p3 == AfterLit(s, p2, <<"-">>)
      p4 == AfterClass(s, p3, AlnumClass, SequenceLen)
      p5 == AfterLit(s, p4, <<"-">>)
      p6 == AfterClass(s, p5, AlnumClass, ChecksumLen)
  IN  (Len(s) + 1) \in p6

validateChittyIDFormat(chittyId) == PatternTest(chittyId)

\* ------------------------------------------------------------------------
\* Request inputs for GET /api/chittyid/validate/:id
\* ------------------------------------------------------------------------

ValidPeo == ChittyPrefix \o <<"P","E","O">> \o <<"-">>
            \o <<"A","B","C","D","1","2","3","4">> \o <<"-">>
            \o <<"W","X","Y","Z">>

InvalidXyz == <<"C","H","I","T","T","Y","-","X","Y","Z","-","1","2","-","A","B">>

IdPrefixes == { <<>>, <<"X">> }

IdHeads == { ChittyPrefix,
             <<"c","h","i","t","t","y","-">>,
             <<"C","H","I","T","T","Y","_">> }

IdTags == EntityTags \cup
          { <<"X","Y","Z">>, <<"p","e","o">>, <<"P","E","O","P","L","E">>, <<>> }

IdSequences == { <<"A","B","C","D","1","2","3","4">>,
                 <<"1","2">>,
                 <<"A","B","C","D","1","2","3">>,
                 <<"A","B","C","D","1","2","3","4","5">>,
                 <<"a","b","c","d","1","2","3","4">>,
                 <<"A","B","C","-","1","2","3","4">> }

IdChecksums == { <<"W","X","Y","Z">>, <<"A","B">>, <<"W","X","Y">>,
                 <<"W","X","Y","Z","0">>, <<"w","x","y","z">>,
                 <<"W"," ","Y","Z">> }

IdSuffixes == { <<>>, <<"\n">>, <<"X">> }

IdInputs ==
  { pre \o hd \o tg \o <<"-">> \o sq \o <<"-">> \o ck \o suf :
      pre \in IdPrefixes, hd \in IdHeads, tg \in IdTags,
      sq \in IdSequences, ck \in IdChecksums, suf \in IdSuffixes }

\* ------------------------------------------------------------------------
\* JavaScript values and the coercions the code applies to them
\* ------------------------------------------------------------------------

Undef == [k |-> "undefined", n |-> 0, s |-> ""]

Null == [k |-> "null", n |-> 0, s |-> ""]

NaN == [k |-> "nan", n |-> 0, s |-> ""]

Num(i) == [k |-> "number", n |-> i, s |-> ""]

Str(t) == [k |-> "string", n |-> 0, s |-> t]

Bool(b) == [k |-> "boolean", n |-> IF b THEN 1 ELSE 0, s |-> ""]

\* a plain object {} and an empty array []
Obj == [k |-> "object", n |-> 0, s |-> ""]

EmptyArr == [k |-> "array", n |-> 0, s |-> ""]

\* ToBoolean: undefined, null, 0, NaN, "" and false are falsy
Truthy(v) ==
  CASE v.k \in {"undefined", "null", "nan"} -> FALSE
    [] v.k = "number"  -> v.n # 0
    [] v.k = "string"  -> v.s # ""
    [] v.k = "boolean" -> v.n = 1
    [] OTHER           -> TRUE

\* a || b
OrElse(a, b) == IF Truthy(a) THEN a ELSE b

\* StringToNumber on the string literals the model uses
StringToNumber(t) ==
  CASE t = ""    -> Num(0)
    [] t = "50"  -> Num(50)
    [] t = "150" -> Num(150)
    [] OTHER     -> NaN

\* ToNumber, which Math.min, Math.max and <= apply to their operands
ToNumber(v) ==
  CASE v.k = "undefined" -> NaN
    [] v.k = "null"      -> Num(0)
    [] v.k = "nan"       -> NaN
    [] v.k = "number"    -> v
    [] v.k = "string"    -> StringToNumber(v.s)
    [] v.k = "boolean"   -> Num(v.n)
    [] v.k = "array"     -> Num(0)
    [] OTHER             -> NaN

\* Math.min(a, b): NaN if either operand converts to NaN
MathMin(a, b) ==
  LET x == ToNumber(a)
      y == ToNumber(b)
  IN  IF x.k = "nan" \/ y.k = "nan" THEN NaN
      ELSE IF x.n <= y.n THEN x ELSE y

\* Math.max(a, b): NaN if either operand converts to NaN
MathMax(a, b) ==
  LET x == ToNumber(a)
      y == ToNumber(b)
  IN  IF x.k = "nan" \/ y.k = "nan" THEN NaN
      ELSE IF x.n >= y.n THEN x ELSE y

\* a <= b: false when either operand converts to NaN
LessEq(a, b) ==
  LET x == ToNumber(a)
      y == ToNumber(b)
  IN  x.k # "nan" /\ y.k # "nan" /\ x.n <= y.n

\* Array.isArray(v)
IsArray(v) == v.k = "array"

\* ------------------------------------------------------------------------
\* AI gateway client (chittygateway.ts)
\* ------------------------------------------------------------------------

\* The text the model answered with (data.result.response):
\*   t = "json"    text that JSON.parse accepts, val is the parsed value
\*   t = "garbage" non-empty text that JSON.parse rejects
\*   t = "empty"   the empty string
\*   t = "missing" result.response is undefined
\* A parsed value is an object (isObj) with fields, or null / a primitive, in
\* which case every property read gives undefined and null makes it throw.
NoFields == [answer |-> Undef, rtloSection |-> Undef, confidence |-> Undef,
             complianceScore |-> Undef, issues |-> Undef,
             recommendations |-> Undef]

JsonText(v) == [t |-> "json", val |-> v]

GarbageText == [t |-> "garbage", val |-> [isObj |-> FALSE, prim |-> Undef, f |-> NoFields]]

EmptyText == [t |-> "empty", val |-> [isObj |-> FALSE, prim |-> Undef, f |-> NoFields]]

MissingText == [t |-> "missing", val |-> [isObj |-> FALSE, prim |-> Undef, f |-> NoFields]]

JObject(fields) == [isObj |-> TRUE, prim |-> Undef, f |-> fields]

JPrim(v) == [isObj |-> FALSE, prim |-> v, f |-> NoFields]

\* outcome of a call that either returns a value or throws an Error whose
\* message is a sequence of string pieces (concatenation is \o)
Returned(v) == [threw |-> FALSE, value |-> v, message |-> <<>>]

Thrown(msg) == [threw |-> TRUE, value |-> Undef, message |-> msg]

\* JSON.parse(text)
JsonParse(text) ==
  IF text.t = "json" THEN Returned(text.val)
  ELSE Thrown(<<"Unexpected token in JSON">>)

\* reading a property of a parsed value: throws a TypeError on null
CanReadProps(val) == val.isObj \/ val.prim.k # "null"

\* What the upstream endpoint does with one request:
\*   fetch = "rejected"            fetch() rejects (network failure)
\*   status                        HTTP status of the response
\*   body = "text"                 the body is not JSON
\*   body = "json", success, hasResult, text
HttpOk(status) == status >= 200 /\ status <= 299

\* chatCompletion without the test of data.success
chatCompletionNoSuccessTest(apiKey, up) ==
  IF ~apiKey
    THEN Thrown(<<"CHITTY_API_KEY or CLOUDFLARE_API_TOKEN is required">>)
  ELSE IF up.fetch = "rejected"
    THEN Thrown(<<"fetch failed">>)
  ELSE IF ~HttpOk(up.status)
    THEN Thrown(<<"ChittyGateway request failed: ", ToString(up.status), " - ", "upstream error body">>)
  ELSE IF up.body # "json"
    THEN Thrown(<<"Unexpected token in JSON">>)
  ELSE Returned(up.text)

\* chatCompletion(messages, jsonMode) with the process environment's key
chatCompletion(apiKey, up) ==
  IF ~apiKey
    THEN Thrown(<<"CHITTY_API_KEY or CLOUDFLARE_API_TOKEN is required">>)
  ELSE IF up.fetch = "rejected"
    THEN Thrown(<<"fetch failed">>)
  ELSE IF ~HttpOk(up.status)
    THEN Thrown(<<"ChittyGateway request failed: ", ToString(up.status), " - ", "upstream error body">>)
  ELSE IF up.body # "json"
    THEN Thrown(<<"Unexpected token in JSON">>)
  ELSE IF ~up.success
    THEN Thrown(<<"ChittyGateway error: ", "[errors]">>)
  ELSE IF ~up.hasResult
    THEN Thrown(<<"Cannot read properties of undefined (reading 'response')">>)
  ELSE Returned(up.text)

ConfidenceLevels == {"high", "medium", "low"}

\* a membership test that ignores case
IncludesConfidenceAnyCase(v) ==
  v.k = "string" /\ v.s \in ConfidenceLevels \cup {"HIGH", "MEDIUM", "LOW"}

\* ['high', 'medium', 'low'].includes(v)
IncludesConfidence(v) == v.k = "string" /\ v.s \in ConfidenceLevels

DefaultAnswer == Str("Unable to provide specific guidance. Please consult the full Chicago RTLO text or legal counsel.")

\* the object analyzeRTLOQuestion builds from the parsed result
RTLOAnswer(result) ==
  [answer      |-> OrElse(result.f.answer, DefaultAnswer),
   rtloSection |-> OrElse(result.f.rtloSection, Null),
   confidence  |-> IF IncludesConfidence(result.f.confidence)
                     THEN result.f.confidence ELSE Str("low")]

\* wrap whatever was thrown inside the try block
Wrap(prefix, r) == IF r.threw THEN Thrown(<<prefix>> \o r.message) ELSE r

\* const result = JSON.parse(await chatCompletion(...)), with the first
\* property read of result
ParsedResult(apiKey, up) ==
  LET c == chatCompletion(apiKey, up)
      p == JsonParse(c.value)
  IN  IF c.threw THEN c
      ELSE IF p.threw THEN p
      ELSE IF ~CanReadProps(p.value)
        THEN Thrown(<<"Cannot read properties of null">>)
      ELSE p

analyzeRTLOQuestion(apiKey, up) ==
  LET result == ParsedResult(apiKey, up)
  IN  Wrap("Failed to analyze RTLO question: ",
           IF result.threw THEN result ELSE Returned(RTLOAnswer(result.value)))

ScoreMin == 0

ScoreMax == 100

\* Math.max(0, Math.min(100, result.complianceScore || 0))
ClampScore(v) == MathMax(Num(ScoreMin), MathMin(Num(ScoreMax), OrElse(v, Num(0))))

\* the object analyzeLeaseCompliance builds from the parsed result
LeaseAnalysis(result) ==
  [complianceScore |-> ClampScore(result.f.complianceScore),
   issues          |-> IF IsArray(result.f.issues) THEN result.f.issues ELSE EmptyArr,
   recommendations |-> IF IsArray(result.f.recommendations)
                         THEN result.f.recommendations ELSE EmptyArr]

analyzeLeaseCompliance(apiKey, up) ==
  LET result == ParsedResult(apiKey, up)
  IN  Wrap("Failed to analyze lease compliance: ",
           IF result.threw THEN result ELSE Returned(LeaseAnalysis(result.value)))

DefaultDocument == "Unable to generate document."

\* return response || "Unable to generate document."
DocumentText(text) ==
  IF text.t \in {"empty", "missing"} THEN DefaultDocument ELSE "generated document"

generateRTLODocument(apiKey, up) ==
  LET c == chatCompletion(apiKey, up)
  IN  Wrap("Failed to generate document: ",
           IF c.threw THEN c ELSE Returned(DocumentText(c.value)))

\* ------------------------------------------------------------------------
\* Upstream behaviours and request bodies the model draws from
\* ------------------------------------------------------------------------

NoText == [t |-> "none", val |-> [isObj |-> FALSE, prim |-> Undef, f |-> NoFields]]

UpOk(text) == [fetch |-> "resolved", status |-> 200, body |-> "json",
               success |-> TRUE, hasResult |-> TRUE, text |-> text]

\* the ways a request to the gateway fails before a text is returned
UpFailures ==
  { [fetch |-> "rejected", status |-> 0,   body |-> "text", success |-> FALSE, hasResult |-> FALSE, text |-> NoText],
    [fetch |-> "resolved", status |-> 500, body |-> "text", success |-> FALSE, hasResult |-> FALSE, text |-> NoText],
    [fetch |-> "resolved", status |-> 401, body |-> "json", success |-> FALSE, hasResult |-> FALSE, text |-> NoText],
    [fetch |-> "resolved", status |-> 200, body |-> "text", success |-> FALSE, hasResult |-> FALSE, text |-> NoText],
    [fetch |-> "resolved", status |-> 200, body |-> "json", success |-> FALSE, hasResult |-> FALSE, text |-> NoText],
    [fetch |-> "resolved", status |-> 200, body |-> "json", success |-> TRUE,  hasResult |-> FALSE, text |-> NoText] }

NoUpstream == [fetch |-> "none", status |-> 0, body |-> "text",
               success |-> FALSE, hasResult |-> FALSE, text |-> NoText]

UnparseableTexts == {GarbageText, EmptyText, MissingText}

PrimitiveTexts == {JsonText(JPrim(Null)), JsonText(JPrim(Num(5)))}

\* values the model may put in the confidence field
ConfidenceValues ==
  { Str("high"), Str("medium"), Str("low"), Str("HIGH"), Str("certain"),
    Undef, Null, Num(1), Bool(TRUE) }

QATexts ==
  { JsonText(JObject([NoFields EXCEPT !.answer = Str("See 5-12-110."),
                                      !.rtloSection = Str("5-12-110"),
                                      !.confidence = c])) : c \in ConfidenceValues }
  \cup { JsonText(JObject([NoFields EXCEPT !.confidence = Str("medium")])) }
  \cup UnparseableTexts \cup PrimitiveTexts

QAUpstreams == UpFailures \cup { UpOk(t) : t \in QATexts }

\* values the model may put in the complianceScore field
ScoreValues ==
  { Num(-5), Num(0), Num(72), Num(100), Num(101),
    Undef, Null, Str("50"), Str("150"), Str(""), Str("high"),
    Bool(TRUE), Obj, EmptyArr }

LeaseTexts ==
  { JsonText(JObject([NoFields EXCEPT !.complianceScore = v,
                                      !.issues = EmptyArr,
                                      !.recommendations = EmptyArr])) : v \in ScoreValues }
  \cup { JsonText(JObject([NoFields EXCEPT !.complianceScore = Num(72),
                                           !.issues = Str("none"),
                                           !.recommendations = Obj])) }
  \cup UnparseableTexts \cup PrimitiveTexts

LeaseUpstreams == UpFailures \cup { UpOk(t) : t \in LeaseTexts }

DocUpstreams == UpFailures \cup { UpOk(t) : t \in {GarbageText, EmptyText, MissingText} }

\* the upstream behaviours a request can meet: the gateway is reached only by
\* a request that carries the fields its route requires
UpstreamsFor(complete, ups) == IF complete THEN ups ELSE {NoUpstream}

NoBody == [address |-> Undef, units |-> Undef, isOwnerOccupied |-> Undef,
           isRtloCovered |-> Undef, userId |-> Undef, question |-> Undef,
           documentType |-> Undef, title |-> Undef, leaseText |-> Undef]

UnitsValues == { Undef, Null, Num(-2), Num(0), Num(1), Num(6), Num(7) }

OwnerValues == { Undef, Bool(TRUE), Bool(FALSE) }

CoveredValues == { Undef, Bool(TRUE), Bool(FALSE) }

PropertyBodies ==
  { [NoBody EXCEPT !.address = Str("1 N State St"), !.units = u,
                   !.isOwnerOccupied = o] :
      u \in UnitsValues, o \in OwnerValues }
  \cup { [NoBody EXCEPT !.address = Str("1 N State St"), !.units = u,
                        !.isOwnerOccupied = o, !.isRtloCovered = c] :
      u \in {Undef, Num(6), Num(7)}, o \in {Bool(TRUE), Bool(FALSE)},
      c \in CoveredValues }
  \cup { NoBody,
         [NoBody EXCEPT !.address = Str("1 N State St"), !.units = Str("3")],
         [NoBody EXCEPT !.address = Str("1 N State St"), !.isOwnerOccupied = Str("yes")],
         [NoBody EXCEPT !.address = Str("1 N State St"), !.units = Num(2),
                        !.isOwnerOccupied = Bool(TRUE), !.userId = Str("mallory")] }

QuestionBodies ==
  { NoBody,
    [NoBody EXCEPT !.question = Str("")],
    [NoBody EXCEPT !.question = Null],
    [NoBody EXCEPT !.userId = Str("mallory")],
    [NoBody EXCEPT !.question = Str("May my landlord enter without notice?")],
    [NoBody EXCEPT !.question = Str("May my landlord enter without notice?"),
                   !.userId = Str("mallory")] }

DocumentBodies ==
  { NoBody,
    [NoBody EXCEPT !.documentType = Str("access-notice")],
    [NoBody EXCEPT !.title = Str("Notice")],
    [NoBody EXCEPT !.documentType = Str(""), !.title = Str("Notice")],
    [NoBody EXCEPT !.documentType = Str("access-notice"), !.title = Str("Notice")],
    [NoBody EXCEPT !.documentType = Str("access-notice"), !.title = Str("Notice"),
                   !.userId = Str("mallory")] }

AnalysisBodies ==
  { NoBody,
    [NoBody EXCEPT !.leaseText = Str("")],
    [NoBody EXCEPT !.userId = Str("mallory")],
    [NoBody EXCEPT !.leaseText = Str("Tenant shall pay ...")],
    [NoBody EXCEPT !.leaseText = Str("Tenant shall pay ..."), !.userId = Str("mallory")] }

\* the most records the model lets the store hold
MaxStored == 1

\* ------------------------------------------------------------------------
\* Auth module (chittyAuth.ts): sessions, token refresh, ChittyID gate
\* ------------------------------------------------------------------------

\* an optional string claim, kept as characters because the ChittyID pattern
\* inspects it
Absent == [def |-> FALSE, chars |-> <<>>]

Chars(cs) == [def |-> TRUE, chars |-> cs]

\* ToBoolean of an optional string
Present(x) == x.def /\ x.chars # <<>>

\* tokens.claims(): undefined when the response carries no ID token
NoClaims == [present |-> FALSE, exp |-> Undef, sub |-> Absent, chitty_id |-> Absent]

Claims(exp, sub, chittyId) ==
  [present |-> TRUE, exp |-> Num(exp), sub |-> sub, chitty_id |-> chittyId]

\* req.user before anything is stored in it
NoUser == [claims |-> NoClaims, access_token |-> Undef, refresh_token |-> Undef,
           expires_at |-> Undef, chittyId |-> Absent]

\* updateUserSession that leaves the access token as it was
updateUserSessionKeepingToken(user, tokens) ==
  [user EXCEPT !.claims        = tokens.claims,
               !.refresh_token = tokens.refresh_token,
               !.expires_at    = tokens.claims.exp,
               !.chittyId      = IF Present(tokens.claims.chitty_id)
                                   THEN tokens.claims.chitty_id
                                   ELSE tokens.claims.sub]

\* updateUserSession(user, tokens)
updateUserSession(user, tokens) ==
  [user EXCEPT !.claims        = tokens.claims,
               !.access_token  = tokens.access_token,
               !.refresh_token = tokens.refresh_token,
               !.expires_at    = tokens.claims.exp,
               !.chittyId      = IF Present(tokens.claims.chitty_id)
                                   THEN tokens.claims.chitty_id
                                   ELSE tokens.claims.sub]

\* getOidcConfig(): the memoized discovery.  cache is "ok" or "rejected" while
\* the memoized promise is within maxAge and "expired" after it; discovery is
\* the outcome the identity provider would give a new discovery request.
getOidcConfig(cache, discovery) ==
  IF cache = "expired"
    THEN [ok |-> discovery = "ok", calls |-> 1,
          cache |-> IF discovery = "ok" THEN "ok" ELSE "rejected"]
    ELSE [ok |-> cache = "ok", calls |-> 0, cache |-> cache]

\* a verify callback that refuses a malformed chitty_id claim
VerifyCheckingChittyID(tokens, storageOk) ==
  IF ~tokens.claims.present
    THEN [ok |-> FALSE, user |-> NoUser, upserts |-> 0]
  ELSE IF Present(tokens.claims.chitty_id)
          /\ ~validateChittyIDFormat(tokens.claims.chitty_id.chars)
    THEN [ok |-> FALSE, user |-> NoUser, upserts |-> 0]
  ELSE IF ~storageOk
    THEN [ok |-> FALSE, user |-> NoUser, upserts |-> 1]
  ELSE [ok |-> TRUE, user |-> updateUserSession(NoUser, tokens), upserts |-> 1]

\* the verify callback of the login strategy, run once the authorization code
\* grant returned tokens: updateUserSession, then upsertUser(tokens.claims())
Verify(tokens, storageOk) ==
  IF ~tokens.claims.present
    THEN [ok |-> FALSE, user |-> NoUser, upserts |-> 0]
  ELSE IF ~storageOk
    THEN [ok |-> FALSE, user |-> NoUser, upserts |-> 1]
  ELSE [ok |-> TRUE, user |-> updateUserSession(NoUser, tokens), upserts |-> 1]

NoTokens == [access_token |-> Undef, refresh_token |-> Undef, claims |-> NoClaims]

\* what a grant at the token endpoint does: it rejects, or resolves with tokens
GrantFailed == [ok |-> FALSE, tokens |-> NoTokens]

GrantOk(tokens) == [ok |-> TRUE, tokens |-> tokens]

\* isAuthenticated with a second grant after a failed one
isAuthenticatedRunRetrying(sess, t, cache, discovery, grant) ==
  LET user   == sess.user
      config == getOidcConfig(cache, discovery)
      quiet  == [outcome |-> "401", user |-> user, config |-> "unused",
                 discoveryCalls |-> 0, grantCalls |-> 0, cache |-> cache]
  IN  IF ~sess.loggedIn \/ ~Truthy(user.expires_at)
        THEN quiet
      ELSE IF LessEq(Num(t), user.expires_at)
        THEN [quiet EXCEPT !.outcome = "next"]
      ELSE IF ~Truthy(user.refresh_token)
        THEN quiet
      ELSE IF ~config.ok
        THEN [quiet EXCEPT !.config = "rejected", !.discoveryCalls = config.calls,
                           !.cache = config.cache]
      ELSE IF ~grant.ok
        THEN [quiet EXCEPT !.config = "ok", !.discoveryCalls = config.calls,
                           !.cache = config.cache, !.grantCalls = 2]
      ELSE [outcome |-> "next", user |-> updateUserSession(user, grant.tokens),
            config |-> "ok", discoveryCalls |-> config.calls, grantCalls |-> 1,
            cache |-> config.cache]

\* isAuthenticated(req, res, next) on session sess at time t:
\*   grant      what client.refreshTokenGrant would do
\*   discovery  what a new discovery request would do
\* gives the response ("next" or 401), the user object afterwards, how
\* getOidcConfig ended if it was called, the number of discovery requests and
\* of refresh-token grants made, and the cache
isAuthenticatedRun(sess, t, cache, discovery, grant) ==
  LET user   == sess.user
      config == getOidcConfig(cache, discovery)
      quiet  == [outcome |-> "401", user |-> user, config |-> "unused",
                 discoveryCalls |-> 0, grantCalls |-> 0, cache |-> cache]
  IN  IF ~sess.loggedIn \/ ~Truthy(user.expires_at)
        THEN quiet
      ELSE IF LessEq(Num(t), user.expires_at)
        THEN [quiet EXCEPT !.outcome = "next"]
      ELSE IF ~Truthy(user.refresh_token)
        THEN quiet
      ELSE IF ~config.ok
        THEN [quiet EXCEPT !.config = "rejected", !.discoveryCalls = config.calls,
                           !.cache = config.cache]
      ELSE IF ~grant.ok
        THEN [quiet EXCEPT !.config = "ok", !.discoveryCalls = config.calls,
                           !.cache = config.cache, !.grantCalls = 1]
      ELSE [outcome |-> "next", user |-> updateUserSession(user, grant.tokens),
            config |-> "ok", discoveryCalls |-> config.calls, grantCalls |-> 1,
            cache |-> config.cache]

\* requireChittyID(req, res, next)
requireChittyIDRun(sess) ==
  IF ~sess.loggedIn \/ ~Present(sess.user.chittyId)
       \/ ~validateChittyIDFormat(sess.user.chittyId.chars)
    THEN "401" ELSE "next"

\* the last instant of the model's clock
MaxTime == 3

UserSub == Chars(<<"u","1">>)

\* (chitty_id, sub) pairs an ID token may carry besides (absent, UserSub)
IdentityClaims ==
  { <<Chars(ValidPeo), UserSub>>, <<Chars(InvalidXyz), UserSub>>,
    <<Chars(<<>>), Chars(ValidPeo)>>, <<Absent, Absent>> }

AccessTokens == { Str("at-1"), Str("at-2") }

RefreshTokens == { Undef, Str("rt-1") }

\* token responses whose ID token the client library accepted at time t: the
\* token is not yet expired
TokensWithClaims(t) ==
  { [access_token |-> a, refresh_token |-> r, claims |-> Claims(e, UserSub, Absent)] :
      a \in AccessTokens, r \in RefreshTokens, e \in t .. MaxTime }
  \cup { [access_token |-> Str("at-1"), refresh_token |-> Str("rt-1"),
          claims |-> Claims(t, ic[2], ic[1])] : ic \in IdentityClaims }

\* token responses without an ID token
TokensWithoutClaims ==
  { [access_token |-> a, refresh_token |-> r, claims |-> NoClaims] :
      a \in AccessTokens, r \in RefreshTokens }

TokenResponses(t) == TokensWithClaims(t) \cup TokensWithoutClaims

\* the outcomes of a grant made at time t
GrantOutcomes(t) == {GrantFailed} \cup { GrantOk(tk) : tk \in TokenResponses(t) }

NoAuthRequest == [mw |-> "none", outcome |-> "none", time |-> 0,
                  wasLoggedIn |-> FALSE, expiresAt |-> Undef, refreshToken |-> Undef,
                  config |-> "unused", discoveryCalls |-> 0, grantCalls |-> 0,
                  grant |-> GrantFailed,
                  storageOk |-> FALSE]

\* ------------------------------------------------------------------------
\* State
\* ------------------------------------------------------------------------

NoResponse == [status |-> 0]

NotCalled == [threw |-> FALSE, value |-> Undef, message |-> <<"not called">>]

NoRequest == [route |-> "none", status |-> 0, message |-> <<>>, body |-> NoBody,
              gwCalled |-> FALSE, up |-> NoUpstream, gw |-> NotCalled,
              writes |-> 0, writeOk |-> FALSE, arg |-> Undef, reader |-> Undef,
              payload |-> Undef]

VARIABLES
  apiKey,        \* process.env.CHITTY_API_KEY || CLOUDFLARE_API_TOKEN is set
  properties,    \* storage: Property records, in creation order
  rtloQuestions, \* storage: RTLOQuestion records
  documents,     \* storage: Document records
  aiAnalyses,    \* storage: AIAnalysis records
  last,          \* the request the route layer handled last and its response
  session,       \* the session of one browser: logged in or not, and req.user
  now,           \* the clock, in the unit of the exp claim
  oidcCache,     \* the memoized discovery: "ok", "rejected" or "expired"
  authLast,      \* the request the auth module handled last and its outcome
  idParam,       \* req.params.id of the request to /api/chittyid/validate/:id
  idResponse     \* the JSON body that route answered with, or NoResponse

storeVars == <<properties, rtloQuestions, documents, aiAnalyses>>

routeVars == <<apiKey, properties, rtloQuestions, documents, aiAnalyses, last>>

authVars == <<session, now, oidcCache, authLast>>

idVars == <<idParam, idResponse>>

vars == <<apiKey, properties, rtloQuestions, documents, aiAnalyses, last,
          session, now, oidcCache, authLast, idParam, idResponse>>

StoredCount == Len(properties) + Len(rtloQuestions) + Len(documents) + Len(aiAnalyses)

\* a session that logged in as UserSub
LoggedInSession ==
  [loggedIn |-> TRUE,
   user |-> updateUserSession(NoUser,
              [access_token |-> Str("at-1"), refresh_token |-> Str("rt-1"),
               claims |-> Claims(MaxTime, UserSub, Absent)])]

\* the state after registerRoutes and setupAuth: empty stores, discovery
\* succeeded, nobody logged in, no request handled yet
Init ==
  /\ apiKey \in BOOLEAN
  /\ properties = <<>>
  /\ rtloQuestions = <<>>
  /\ documents = <<>>
  /\ aiAnalyses = <<>>
  /\ last = NoRequest
  /\ session = [loggedIn |-> FALSE, user |-> NoUser]
  /\ now = 1
  /\ oidcCache = "ok"
  /\ authLast = NoAuthRequest
  /\ idParam = <<>>
  /\ idResponse = NoResponse

\* the same state with the API key set, the browser's session anonymous or
\* logged in
InitUsers ==
  /\ apiKey = TRUE
  /\ properties = <<>>
  /\ rtloQuestions = <<>>
  /\ documents = <<>>
  /\ aiAnalyses = <<>>
  /\ last = NoRequest
  /\ session \in {[loggedIn |-> FALSE, user |-> NoUser], LoggedInSession}
  /\ now = 1
  /\ oidcCache = "ok"
  /\ authLast = NoAuthRequest
  /\ idParam = <<>>
  /\ idResponse = NoResponse

\* the same state, with the API key set
InitAuth ==
  /\ apiKey = TRUE
  /\ properties = <<>>
  /\ rtloQuestions = <<>>
  /\ documents = <<>>
  /\ aiAnalyses = <<>>
  /\ last = NoRequest
  /\ session = [loggedIn |-> FALSE, user |-> NoUser]
  /\ now = 1
  /\ oidcCache = "ok"
  /\ authLast = NoAuthRequest
  /\ idParam = <<>>
  /\ idResponse = NoResponse

\* the same state, with a request to /api/chittyid/validate/:id arriving
InitChittyID ==
  /\ apiKey = TRUE
  /\ properties = <<>>
  /\ rtloQuestions = <<>>
  /\ documents = <<>>
  /\ aiAnalyses = <<>>
  /\ last = NoRequest
  /\ session = [loggedIn |-> FALSE, user |-> NoUser]
  /\ now = 1
  /\ oidcCache = "ok"
  /\ authLast = NoAuthRequest
  /\ idParam \in IdInputs
  /\ idResponse = NoResponse

\* ------------------------------------------------------------------------
\* GET /api/chittyid/validate/:id
\* ------------------------------------------------------------------------

ValidateRoute ==
  /\ idResponse = NoResponse
  /\ idResponse' = [status |-> 200, id |-> idParam,
                    valid |-> validateChittyIDFormat(idParam)]
  /\ UNCHANGED <<idParam, routeVars, authVars>>

\* ------------------------------------------------------------------------
\* Route layer (routes.ts)
\* ------------------------------------------------------------------------

\* insertPropertySchema.parse(obj): the object when it fits the Property
\* insert shape (address required; units, isOwnerOccupied and isRtloCovered
\* optional and nullable), a thrown validation error otherwise
insertPropertySchemaParse(obj) ==
  IF /\ obj.address.k = "string"
     /\ obj.userId.k = "string"
     /\ obj.units.k \in {"undefined", "null", "number"}
     /\ obj.isOwnerOccupied.k \in {"undefined", "null", "boolean"}
     /\ obj.isRtloCovered.k \in {"undefined", "null", "boolean"}
    THEN Returned(obj)
    ELSE Thrown(<<"validation error">>)

\* a storage create call: the record with the id the store assigns
Created(store, rec) == [id |-> Len(store) + 1, rec |-> rec]

StorageError == <<"storage error">>

SixUnits == 6

\* the exemption with < 6 in place of <= 6
RtloCoveredBelowSix(propertyData) ==
  ~ ( /\ Truthy(propertyData.isOwnerOccupied)
      /\ LessEq(OrElse(propertyData.units, Num(1)), Num(SixUnits - 1)) )

\* propertyData.isOwnerOccupied && (propertyData.units || 1) <= 6 makes the
\* property exempt
RtloCovered(propertyData) ==
  ~ ( /\ Truthy(propertyData.isOwnerOccupied)
      /\ LessEq(OrElse(propertyData.units, Num(1)), Num(SixUnits)) )

\* { userId: "anonymous", ...req.body }: the spread in the other order
WithBodyUser(body) ==
  IF body.userId.k = "undefined" THEN [body EXCEPT !.userId = Str("anonymous")] ELSE body

\* { ...req.body, userId: "anonymous" }
WithAnonymousUser(body) == [body EXCEPT !.userId = Str("anonymous")]

\* the argument of storage.createProperty
PropertyRecord(propertyData) ==
  [userId           |-> propertyData.userId,
   address          |-> propertyData.address,
   units            |-> propertyData.units,
   isOwnerOccupied  |-> propertyData.isOwnerOccupied,
   isRtloCovered    |-> Bool(RtloCovered(propertyData)),
   verificationDate |-> "now"]

\* the status the catch block of POST /api/properties answers with
PropertyCatchStatus == 400

\* app.post("/api/properties")
PostProperty(body, storageOk) ==
  LET parsed == insertPropertySchemaParse(WithAnonymousUser(body))
      made   == Created(properties, PropertyRecord(parsed.value))
  IN  /\ StoredCount < MaxStored
      /\ IF parsed.threw
           THEN /\ last' = [NoRequest EXCEPT !.route = "POST /api/properties",
                              !.body = body, !.status = PropertyCatchStatus,
                              !.message = <<"Failed to create property: ">> \o parsed.message]
                /\ UNCHANGED properties
         ELSE IF ~storageOk
           THEN /\ last' = [NoRequest EXCEPT !.route = "POST /api/properties",
                              !.body = body, !.status = PropertyCatchStatus,
                              !.writes = 1, !.arg = made.rec,
                              !.message = <<"Failed to create property: ">> \o StorageError]
                /\ UNCHANGED properties
         ELSE   /\ properties' = Append(properties, made)
                /\ last' = [NoRequest EXCEPT !.route = "POST /api/properties",
                              !.body = body, !.status = 200,
                              !.writes = 1, !.writeOk = TRUE, !.arg = made.rec,
                              !.payload = made]
      /\ UNCHANGED <<apiKey, rtloQuestions, documents, aiAnalyses, idVars, authVars>>

\* storage.getXByUser(userId): the records of that user
ByUser(store, userId) == SelectSeq(store, LAMBDA r : r.rec.userId = Str(userId))

\* a list route: app.get(route) answering with one user's records
ListRoute(route, store, storageOk, failMessage) ==
  /\ last' = IF storageOk
               THEN [NoRequest EXCEPT !.route = route, !.status = 200,
                       !.reader = Str("anonymous"),
                       !.payload = ByUser(store, "anonymous")]
               ELSE [NoRequest EXCEPT !.route = route, !.status = 500,
                       !.message = <<failMessage>>]
  /\ UNCHANGED <<apiKey, storeVars, idVars, authVars>>

\* app.get("/api/properties")
GetProperties(storageOk) ==
  ListRoute("GET /api/properties", properties, storageOk, "Failed to fetch properties")

\* app.get("/api/rtlo-questions")
GetRtloQuestions(storageOk) ==
  ListRoute("GET /api/rtlo-questions", rtloQuestions, storageOk, "Failed to fetch questions")

\* app.get("/api/documents")
GetDocuments(storageOk) ==
  ListRoute("GET /api/documents", documents, storageOk, "Failed to fetch documents")

\* A POST route that checks its required fields, calls a gateway operation and
\* stores a record built from the result:
\*   missing   the required-field test of the route
\*   gw        the outcome of the gateway operation
\*   made      the record storage creates from the route's argument
\*   payload   what the route passes to res.json
GatewayRoute(route, body, up, storageOk, missing, missingMessage, failPrefix, gw, store, made, payload) ==
  IF missing
    THEN /\ last' = [NoRequest EXCEPT !.route = route, !.body = body,
                       !.status = 400, !.message = <<missingMessage>>]
         /\ UNCHANGED store
  ELSE IF gw.threw
    THEN /\ last' = [NoRequest EXCEPT !.route = route, !.body = body,
                       !.status = 500, !.gwCalled = TRUE, !.up = up, !.gw = gw,
                       !.message = <<failPrefix>> \o gw.message]
         /\ UNCHANGED store
  ELSE IF ~storageOk
    THEN /\ last' = [NoRequest EXCEPT !.route = route, !.body = body,
                       !.status = 500, !.gwCalled = TRUE, !.up = up, !.gw = gw,
                       !.writes = 1, !.arg = made.rec,
                       !.message = <<failPrefix>> \o StorageError]
         /\ UNCHANGED store
  ELSE   /\ store' = Append(store, made)
         /\ last' = [NoRequest EXCEPT !.route = route, !.body = body,
                       !.status = 200, !.gwCalled = TRUE, !.up = up, !.gw = gw,
                       !.writes = 1, !.writeOk = TRUE, !.arg = made.rec,
                       !.payload = payload]

\* a test for an undefined question only
QuestionMissingUndefinedOnly(body) == body.question.k = "undefined"

\* if (!question)
QuestionMissing(body) == ~Truthy(body.question)

\* if (!documentType || !title)
DocumentFieldsMissing(body) == ~Truthy(body.documentType) \/ ~Truthy(body.title)

\* if (!leaseText)
LeaseTextMissing(body) == ~Truthy(body.leaseText)

\* app.post("/api/rtlo-questions")
PostRtloQuestion(body, up, storageOk) ==
  LET analysis == analyzeRTLOQuestion(apiKey, up)
      made == Created(rtloQuestions,
                      [userId      |-> Str("anonymous"),
                       question    |-> body.question,
                       answer      |-> analysis.value.answer,
                       rtloSection |-> analysis.value.rtloSection,
                       confidence  |-> analysis.value.confidence])
  IN  /\ StoredCount < MaxStored
      /\ GatewayRoute("POST /api/rtlo-questions", body, up, storageOk,
                      QuestionMissing(body), "Question is required",
                      "Failed to process question: ", analysis, rtloQuestions,
                      made, made)
      /\ UNCHANGED <<apiKey, properties, documents, aiAnalyses, idVars, authVars>>

\* app.post("/api/documents")
PostDocument(body, up, storageOk) ==
  LET content == generateRTLODocument(apiKey, up)
      made == Created(documents,
                      [userId       |-> Str("anonymous"),
                       documentType |-> body.documentType,
                       title        |-> body.title,
                       content      |-> content.value])
  IN  /\ StoredCount < MaxStored
      /\ GatewayRoute("POST /api/documents", body, up, storageOk,
                      DocumentFieldsMissing(body),
                      "Document type and title are required",
                      "Failed to generate document: ", content, documents,
                      made, made)
      /\ UNCHANGED <<apiKey, properties, rtloQuestions, aiAnalyses, idVars, authVars>>

\* JSON.stringify(analysis): NaN is written as null
JsonStringify(analysis) ==
  [json |-> IF analysis.complianceScore.k = "nan"
              THEN [analysis EXCEPT !.complianceScore = Null] ELSE analysis]

\* app.post("/api/ai-analysis")
PostAiAnalysis(body, up, storageOk) ==
  LET analysis == analyzeLeaseCompliance(apiKey, up)
      made == Created(aiAnalyses,
                      [userId          |-> Str("anonymous"),
                       analysisType    |-> "lease-review",
                       originalText    |-> body.leaseText,
                       analysis        |-> JsonStringify(analysis.value),
                       recommendations |-> analysis.value.recommendations,
                       complianceScore |-> analysis.value.complianceScore])
  IN  /\ StoredCount < MaxStored
      /\ GatewayRoute("POST /api/ai-analysis", body, up, storageOk,
                      LeaseTextMissing(body), "Lease text is required",
                      "Failed to perform AI analysis: ", analysis, aiAnalyses,
                      made, [made EXCEPT !.rec.analysis = analysis.value])
      /\ UNCHANGED <<apiKey, properties, rtloQuestions, documents, idVars, authVars>>

\* app.get("/api/ai-analyses"): each record with its analysis parsed back
GetAiAnalyses(storageOk) ==
  /\ last' = IF storageOk
               THEN [NoRequest EXCEPT !.route = "GET /api/ai-analyses", !.status = 200,
                       !.reader = Str("anonymous"),
                       !.payload = [i \in 1 .. Len(ByUser(aiAnalyses, "anonymous")) |->
                                      LET r == ByUser(aiAnalyses, "anonymous")[i]
                                      IN  [r EXCEPT !.rec.analysis = r.rec.analysis.json]]]
               ELSE [NoRequest EXCEPT !.route = "GET /api/ai-analyses", !.status = 500,
                       !.message = <<"Failed to fetch analyses">>]
  /\ UNCHANGED <<apiKey, storeVars, idVars, authVars>>

Next ==
  \/ \E b \in PropertyBodies, ok \in BOOLEAN : PostProperty(b, ok)
  \/ \E ok \in BOOLEAN : GetProperties(ok)
  \/ \E b \in QuestionBodies :
       \E up \in UpstreamsFor(Truthy(b.question), QAUpstreams), ok \in BOOLEAN :
         PostRtloQuestion(b, up, ok)
  \/ \E ok \in BOOLEAN : GetRtloQuestions(ok)
  \/ \E b \in DocumentBodies :
       \E up \in UpstreamsFor(Truthy(b.documentType) /\ Truthy(b.title), DocUpstreams),
          ok \in BOOLEAN :
         PostDocument(b, up, ok)
  \/ \E ok \in BOOLEAN : GetDocuments(ok)
  \/ \E b \in AnalysisBodies :
       \E up \in UpstreamsFor(Truthy(b.leaseText), LeaseUpstreams), ok \in BOOLEAN :
         PostAiAnalysis(b, up, ok)
  \/ \E ok \in BOOLEAN : GetAiAnalyses(ok)

Spec == Init /\ [][Next]_vars

\* the data routes, requested from an anonymous or a logged-in session
SpecUsers == InitUsers /\ [][Next]_vars

NextChittyID == ValidateRoute

SpecChittyID == InitChittyID /\ [][NextChittyID]_vars

\* ------------------------------------------------------------------------
\* Auth requests
\* ------------------------------------------------------------------------

\* GET /api/callback: passport runs the authorization code grant and, when it
\* returns tokens, the verify callback; failure redirects to /api/login
LoginCallback(grant, storageOk) ==
  LET v == IF ~grant.ok THEN [ok |-> FALSE, user |-> NoUser, upserts |-> 0]
           ELSE Verify(grant.tokens, storageOk)
  IN  /\ session' = IF v.ok THEN [loggedIn |-> TRUE, user |-> v.user] ELSE session
      /\ authLast' = [NoAuthRequest EXCEPT !.mw = "callback", !.time = now,
                         !.outcome = IF v.ok THEN "loggedIn" ELSE "loginFailed",
                         !.grant = grant, !.storageOk = storageOk]
      /\ UNCHANGED <<now, oidcCache, routeVars, idVars>>

\* GET /api/logout
Logout ==
  /\ session' = [loggedIn |-> FALSE, user |-> NoUser]
  /\ authLast' = [NoAuthRequest EXCEPT !.mw = "logout", !.time = now,
                     !.outcome = "redirect"]
  /\ UNCHANGED <<now, oidcCache, routeVars, idVars>>

\* a request through the isAuthenticated middleware
IsAuthenticated(discovery, grant) ==
  LET r == isAuthenticatedRun(session, now, oidcCache, discovery, grant)
  IN  /\ session' = [session EXCEPT !.user = r.user]
      /\ oidcCache' = r.cache
      /\ authLast' = [NoAuthRequest EXCEPT !.mw = "isAuthenticated", !.time = now,
                         !.outcome = r.outcome,
                         !.wasLoggedIn = session.loggedIn,
                         !.expiresAt = session.user.expires_at,
                         !.refreshToken = session.user.refresh_token,
                         !.config = r.config,
                         !.discoveryCalls = r.discoveryCalls,
                         !.grantCalls = r.grantCalls,
                         !.grant = IF r.grantCalls = 1 THEN grant ELSE GrantFailed]
      /\ UNCHANGED <<now, routeVars, idVars>>

\* a request through the requireChittyID middleware
RequireChittyID ==
  /\ authLast' = [NoAuthRequest EXCEPT !.mw = "requireChittyID", !.time = now,
                     !.outcome = requireChittyIDRun(session),
                     !.wasLoggedIn = session.loggedIn]
  /\ UNCHANGED <<session, now, oidcCache, routeVars, idVars>>

\* time passes
Tick ==
  /\ now < MaxTime
  /\ now' = now + 1
  /\ UNCHANGED <<session, oidcCache, authLast, routeVars, idVars>>

\* the memoized discovery outlives its maxAge
CacheExpire ==
  /\ oidcCache # "expired"
  /\ oidcCache' = "expired"
  /\ UNCHANGED <<session, now, authLast, routeVars, idVars>>

NextAuth ==
  \/ \E g \in GrantOutcomes(now), ok \in BOOLEAN : LoginCallback(g, ok)
  \/ Logout
  \/ \E d \in {"ok", "fail"}, g \in GrantOutcomes(now) : IsAuthenticated(d, g)
  \/ RequireChittyID
  \/ Tick
  \/ CacheExpire

SpecAuth == InitAuth /\ [][NextAuth]_vars

\* ------------------------------------------------------------------------
\* Properties
\* ------------------------------------------------------------------------

PostRoutes == {"POST /api/properties", "POST /api/rtlo-questions",
               "POST /api/documents", "POST /api/ai-analysis"}

\* the request handled last handed a property to storage.createProperty
HandedProperty == last.route = "POST /api/properties" /\ last.writes = 1

\* C1 as stated: the property handed to storage.createProperty has
\* isRtloCovered = false exactly when isOwnerOccupied is true and units is a
\* number <= 6; absent units therefore give true.
C1_CoverageAsStated ==
  HandedProperty =>
    LET p == last.arg
    IN  /\ p.isRtloCovered \in {Bool(TRUE), Bool(FALSE)}
        /\ (p.isRtloCovered = Bool(FALSE))
             <=> (p.isOwnerOccupied = Bool(TRUE) /\ p.units.k = "number" /\ p.units.n <= 6)

\* the number of units the rule counts: 1 when units is absent, null or 0
CountedUnits(units) == IF units.k = "number" /\ units.n # 0 THEN units.n ELSE 1

\* C1 amended: the property handed to storage.createProperty carries the units
\* and isOwnerOccupied of the request body, and has isRtloCovered = false
\* exactly when isOwnerOccupied is true and the units, counted as 1 when absent,
\* null or 0, are <= 6; a supplied isRtloCovered has no effect.
C1_Coverage ==
  HandedProperty =>
    LET p == last.arg
    IN  /\ p.units = last.body.units
        /\ p.isOwnerOccupied = last.body.isOwnerOccupied
        /\ p.isRtloCovered \in {Bool(TRUE), Bool(FALSE)}
        /\ (p.isRtloCovered = Bool(FALSE))
             <=> (p.isOwnerOccupied = Bool(TRUE) /\ CountedUnits(p.units) <= 6)
        /\ last.writeOk => properties[Len(properties)].rec = p

\* an owner-occupied property without units was stored as exempt although the
\* body asked for isRtloCovered = true
C1_Witness ==
  /\ HandedProperty
  /\ last.writeOk
  /\ last.body.isOwnerOccupied = Bool(TRUE)
  /\ last.body.units = Undef
  /\ last.body.isRtloCovered = Bool(TRUE)
  /\ last.arg.isRtloCovered = Bool(FALSE)

\* analyzeLeaseCompliance returned to POST /api/ai-analysis
LeaseReturned ==
  last.route = "POST /api/ai-analysis" /\ last.gwCalled /\ ~last.gw.threw

\* C2: whenever analyzeLeaseCompliance returns, the complianceScore it returns,
\* and the one stored and answered by POST /api/ai-analysis, is a number in
\* [0,100], whatever the upstream complianceScore is.
C2_ScoreInRange ==
  /\ LeaseReturned =>
       /\ last.gw.value.complianceScore.k = "number"
       /\ last.gw.value.complianceScore.n >= 0
       /\ last.gw.value.complianceScore.n <= 100
  /\ \A i \in 1 .. Len(aiAnalyses) :
       /\ aiAnalyses[i].rec.complianceScore.k = "number"
       /\ aiAnalyses[i].rec.complianceScore.n \in 0 .. 100

\* analyzeRTLOQuestion returned to POST /api/rtlo-questions
QuestionReturned ==
  last.route = "POST /api/rtlo-questions" /\ last.gwCalled /\ ~last.gw.threw

\* the three confidence strings
ConfidenceStrings == {Str("high"), Str("medium"), Str("low")}

\* C3: whenever analyzeRTLOQuestion returns, its confidence is one of 'high',
\* 'medium', 'low': the upstream confidence if it is one of the three, and
\* 'low' for every other upstream value.
C3_Confidence ==
  QuestionReturned =>
    LET upstream == last.up.text.val.f.confidence
        returned == last.gw.value.confidence
    IN  /\ returned \in ConfidenceStrings
        /\ upstream \in ConfidenceStrings => returned = upstream
        /\ upstream \notin ConfidenceStrings => returned = Str("low")

\* an upstream confidence in another case came back as 'low'
C3_Witness ==
  /\ QuestionReturned
  /\ last.up.text.val.f.confidence = Str("HIGH")
  /\ last.gw.value.confidence = Str("low")

\* C4: a POST /api/rtlo-questions request without a question, or with an
\* empty one, is answered 400; the gateway is not called, createRTLOQuestion
\* is not invoked and the stored questions stay as they were.
C4_MissingQuestion ==
  [][ ( /\ last'.route = "POST /api/rtlo-questions"
        /\ last'.body.question \in {Undef, Str("")} )
      => ( /\ last'.status = 400
           /\ ~last'.gwCalled
           /\ last'.writes = 0
           /\ rtloQuestions' = rtloQuestions ) ]_vars

\* a request with an empty question was answered 400
C4_Witness ==
  /\ last.route = "POST /api/rtlo-questions"
  /\ last.body.question = Str("")
  /\ last.status = 400
  /\ ~last.gwCalled

\* the input of the request handled last is missing or invalid
InvalidInput ==
  CASE last.route = "POST /api/properties" ->
         \/ last.body.address.k # "string"
         \/ last.body.units.k \notin {"undefined", "null", "number"}
         \/ last.body.isOwnerOccupied.k \notin {"undefined", "null", "boolean"}
    [] last.route = "POST /api/rtlo-questions" -> ~Truthy(last.body.question)
    [] last.route = "POST /api/documents" ->
         ~Truthy(last.body.documentType) \/ ~Truthy(last.body.title)
    [] last.route = "POST /api/ai-analysis" -> ~Truthy(last.body.leaseText)
    [] OTHER -> FALSE

\* the component called for the request handled last failed
ComponentFailed == last.gw.threw \/ (last.writes = 1 /\ ~last.writeOk)

\* C9: on each POST data route the status is 400 exactly when the input is
\* missing or invalid, and a failure of the storage write or of the gateway on
\* valid input gives 500 with the component's message; a storage failure is
\* never answered 400.
C9_StatusTaxonomy ==
  last.route \in PostRoutes =>
    /\ (last.status = 400) <=> InvalidInput
    /\ (~InvalidInput /\ ComponentFailed) =>
         /\ last.status = 500
         /\ Len(last.message) >= 2
    /\ (last.writes = 1 /\ ~last.writeOk) => last.status # 400

\* the routes that call a gateway operation, with the prefix the operation
\* puts before the error it wraps
WrapPrefix ==
  [r \in {"POST /api/rtlo-questions", "POST /api/documents", "POST /api/ai-analysis"} |->
     CASE r = "POST /api/rtlo-questions" -> "Failed to analyze RTLO question: "
       [] r = "POST /api/documents"      -> "Failed to generate document: "
       [] OTHER                          -> "Failed to analyze lease compliance: "]

\* the upstream call of the request handled last failed in one of the ways
\* the claim lists
GatewayFailureCase ==
  /\ last.route \in DOMAIN WrapPrefix
  /\ last.gwCalled
  /\ \/ ~apiKey
     \/ last.up.fetch = "resolved" /\ (last.up.status < 200 \/ last.up.status > 299)
     \/ last.up.body = "json" /\ ~last.up.success
     \/ /\ last.route # "POST /api/documents"
        /\ last.up.text.t # "json"

\* C10: a gateway operation ends by throwing a wrapped error whenever the API
\* key is missing, the upstream status is not 2xx, the success flag is false
\* or (JSON operations) the model's text is not parseable; the calling route
\* then answers 500 and invokes no storage write.
C10_GatewayFailures ==
  GatewayFailureCase =>
    /\ last.gw.threw
    /\ Len(last.gw.message) >= 2
    /\ last.gw.message[1] = WrapPrefix[last.route]
    /\ last.status = 500
    /\ SubSeq(last.message, 2, Len(last.message)) = last.gw.message
    /\ last.writes = 0
    /\ last.payload = Undef

\* document generation met a false success flag and the route answered 500
C10_Witness ==
  /\ GatewayFailureCase
  /\ last.route = "POST /api/documents"
  /\ apiKey
  /\ last.up.status = 200
  /\ last.up.body = "json"
  /\ ~last.up.success
  /\ last.status = 500

\* the identifier is CHITTY-<tag>-<8 of A-Z0-9>-<4 of A-Z0-9> and nothing else
WellFormedChittyID(s) ==
  \E tag \in EntityTags :
    LET n == Len(tag)
    IN  /\ Len(s) = 7 + n + 1 + 8 + 1 + 4
        /\ SubSeq(s, 1, 7) = <<"C","H","I","T","T","Y","-">>
        /\ SubSeq(s, 8, 7 + n) = tag
        /\ s[8 + n] = "-"
        /\ \A i \in 1 .. 8 : s[8 + n + i] \in AlnumClass
        /\ s[17 + n] = "-"
        /\ \A i \in 1 .. 4 : s[17 + n + i] \in AlnumClass

\* C6: validateChittyIDFormat(s) holds exactly for the whole strings
\* CHITTY-<tag>-<8 of A-Z0-9>-<4 of A-Z0-9> with a tag of the closed set;
\* CHITTY-PEO-ABCD1234-WXYZ is valid, CHITTY-XYZ-12-AB is not, and
\* GET /api/chittyid/validate/:id reports that result for its id.
C6_ChittyIDFormat ==
  /\ validateChittyIDFormat(idParam) <=> WellFormedChittyID(idParam)
  /\ idParam = ValidPeo => validateChittyIDFormat(idParam)
  /\ idParam = InvalidXyz => ~validateChittyIDFormat(idParam)
  /\ idResponse # NoResponse =>
       /\ idResponse.id = idParam
       /\ idResponse.valid <=> WellFormedChittyID(idParam)

\* the route reported CHITTY-PEO-ABCD1234-WXYZ as valid
C6_Witness ==
  /\ idParam = ValidPeo
  /\ idResponse # NoResponse
  /\ idResponse.valid

\* the request handled last went through isAuthenticated on a logged-in
\* session whose expires_at was before the time of the request
StaleRequest ==
  /\ authLast.mw = "isAuthenticated"
  /\ authLast.wasLoggedIn
  /\ authLast.expiresAt.k = "number"
  /\ authLast.expiresAt.n < authLast.time

\* C5: on a logged-in session with expires_at in the past, a successful
\* refresh-token grant replaces the session's tokens and the request is passed
\* on; without a refresh token the answer is 401 and the identity provider is
\* not contacted.
C5_ExpiredSession ==
  StaleRequest =>
    /\ (Truthy(authLast.refreshToken) /\ authLast.grantCalls = 1 /\ authLast.grant.ok) =>
         /\ authLast.outcome = "next"
         /\ session.loggedIn
         /\ session.user.access_token = authLast.grant.tokens.access_token
         /\ session.user.refresh_token = authLast.grant.tokens.refresh_token
    /\ ~Truthy(authLast.refreshToken) =>
         /\ authLast.outcome = "401"
         /\ authLast.discoveryCalls = 0
         /\ authLast.grantCalls = 0

\* an expired session was refreshed with a new access token and passed on
C5_Witness ==
  /\ StaleRequest
  /\ authLast.grantCalls = 1
  /\ authLast.grant.ok
  /\ authLast.outcome = "next"
  /\ session.user.access_token = Str("at-2")

\* values the chittyId of a session may take
ChittyIdValues == {Absent, Chars(<<>>), Chars(ValidPeo), Chars(InvalidXyz), UserSub}

\* C7: requireChittyID answers 401 to a session whose chittyId is absent or
\* fails validateChittyIDFormat; isAuthenticated passes a logged-in, unexpired
\* session on and its outcome is the same for every chittyId; whether login
\* succeeds is the same for every chitty_id claim.
C7_ChittyIDGate ==
  /\ ( /\ authLast.mw = "requireChittyID"
       /\ \/ ~Present(session.user.chittyId)
          \/ ~validateChittyIDFormat(session.user.chittyId.chars) )
       => authLast.outcome = "401"
  /\ ( /\ authLast.mw = "isAuthenticated"
       /\ authLast.wasLoggedIn
       /\ authLast.expiresAt.k = "number"
       /\ authLast.expiresAt.n >= authLast.time )
       => authLast.outcome = "next"
  /\ \A c \in ChittyIdValues, d \in {"ok", "fail"}, g \in GrantOutcomes(now) :
       isAuthenticatedRun([session EXCEPT !.user.chittyId = c], now, oidcCache, d, g).outcome
         = isAuthenticatedRun(session, now, oidcCache, d, g).outcome
  /\ (authLast.mw = "callback" /\ authLast.grant.ok /\ authLast.grant.tokens.claims.present) =>
       /\ (authLast.outcome = "loggedIn") <=> authLast.storageOk
       /\ \A c \in ChittyIdValues :
            Verify([authLast.grant.tokens EXCEPT !.claims.chitty_id = c],
                   authLast.storageOk).ok
              = (authLast.outcome = "loggedIn")

\* isAuthenticated passed on a session that requireChittyID would reject
C7_Witness ==
  /\ authLast.mw = "isAuthenticated"
  /\ authLast.outcome = "next"
  /\ session.loggedIn
  /\ session.user.chittyId = Chars(InvalidXyz)
  /\ requireChittyIDRun(session) = "401"

\* the session of the request handled last was logged in, expired and held a
\* refresh token
HeldStaleRefreshToken == StaleRequest /\ Truthy(authLast.refreshToken)

\* C8 as stated: within one isAuthenticated request the refresh-token grant
\* is invoked at most once, and exactly once when the session is logged in,
\* expired and holds a refresh token; a failed attempt ends in 401.
C8_RefreshOnceAsStated ==
  authLast.mw = "isAuthenticated" =>
    /\ authLast.grantCalls <= 1
    /\ (authLast.grantCalls = 1) <=> HeldStaleRefreshToken
    /\ (authLast.grantCalls = 1 /\ ~authLast.grant.ok) => authLast.outcome = "401"

\* C8 amended: the grant is invoked at most once, and exactly once when the
\* session is logged in, expired, holds a refresh token and getOidcConfig
\* resolves; when getOidcConfig rejects, the request ends in 401 with no
\* grant; a failed grant ends in 401 without a retry; other requests make no
\* grant and no discovery request.
C8_RefreshOnce ==
  authLast.mw = "isAuthenticated" =>
    /\ authLast.grantCalls <= 1
    /\ (authLast.grantCalls = 1) <=> (HeldStaleRefreshToken /\ authLast.config = "ok")
    /\ (HeldStaleRefreshToken /\ authLast.config # "ok") =>
         /\ authLast.config = "rejected"
         /\ authLast.outcome = "401"
    /\ (authLast.grantCalls = 1 /\ ~authLast.grant.ok) => authLast.outcome = "401"
    /\ ~HeldStaleRefreshToken =>
         /\ authLast.discoveryCalls = 0
         /\ authLast.config = "unused"

\* the single grant of a stale request failed and the answer was 401
C8_Witness ==
  /\ HeldStaleRefreshToken
  /\ authLast.grantCalls = 1
  /\ ~authLast.grant.ok
  /\ authLast.outcome = "401"

ListRoutes == {"GET /api/properties", "GET /api/rtlo-questions",
               "GET /api/documents", "GET /api/ai-analyses"}

\* the records of the store a list route reads
StoreOf(route) ==
  CASE route = "GET /api/properties"     -> properties
    [] route = "GET /api/rtlo-questions" -> rtloQuestions
    [] route = "GET /api/documents"      -> documents
    [] OTHER                             -> aiAnalyses

\* every record of the store belongs to 'anonymous'
AllAnonymous(store) == \A i \in 1 .. Len(store) : store[i].rec.userId = Str("anonymous")

\* C11: every record the data routes write carries userId = 'anonymous' and
\* every list route reads for 'anonymous' only, whatever the session is and
\* whatever userId the request body carries; no stored record ever has
\* another userId.
C11_AnonymousOnly ==
  /\ AllAnonymous(properties)
  /\ AllAnonymous(rtloQuestions)
  /\ AllAnonymous(documents)
  /\ AllAnonymous(aiAnalyses)
  /\ (last.route \in PostRoutes /\ last.writes = 1) => last.arg.userId = Str("anonymous")
  /\ (last.route \in ListRoutes /\ last.status = 200) =>
       /\ last.reader = Str("anonymous")
       /\ Len(last.payload) = Len(StoreOf(last.route))
       /\ \A i \in 1 .. Len(last.payload) :
            /\ last.payload[i].id = StoreOf(last.route)[i].id
            /\ last.payload[i].rec.userId = Str("anonymous")

\* a logged-in session posted a property with another userId in the body and
\* the record was stored for 'anonymous'
C11_Witness ==
  /\ session.loggedIn
  /\ last.route = "POST /api/properties"
  /\ last.body.userId = Str("mallory")
  /\ last.writeOk
  /\ properties[Len(properties)].rec.userId = Str("anonymous")

\* isAuthenticated passed the request handled last on
PassedOn == authLast.mw = "isAuthenticated" /\ authLast.outcome = "next"

\* C12: whenever isAuthenticated passes a request on, the session is logged in
\* and its expires_at is defined and not earlier than the time of the request,
\* on the unexpired path and after a successful refresh; such a session is
\* passed on again by any request made up to that expires_at.
C12_PassedOnUnexpired ==
  PassedOn =>
    /\ session.loggedIn
    /\ session.user.expires_at.k = "number"
    /\ session.user.expires_at.n >= authLast.time
    /\ now <= session.user.expires_at.n =>
         \A d \in {"ok", "fail"}, g \in GrantOutcomes(now) :
           isAuthenticatedRun(session, now, oidcCache, d, g).outcome = "next"

====
